---- MODULE Spec2Model ----
(***************************************************************************)
(* Floor-plan visualiser: the render orchestrator of services/openai.ts    *)
(* (current revision and the earlier revision kept in unnamed/part_000),   *)
(* and the handleUpload flows of App.tsx (current revision and the earlier *)
(* revision) that create and settle the rows of the renders table.         *)
(*                                                                         *)
(* Every await of the code is a step boundary: an action is the code that  *)
(* runs from one await to the next.  External parties (the image edit      *)
(* endpoint, the vision endpoint, the browser's image decoder, the store's *)
(* inserts) answer nondeterministically from small sets.                   *)
(***************************************************************************)
EXTENDS Integers, Sequences, FiniteSets, TLC

VARIABLES
    build,          \* which revision runs: "current" | "earlier" | "call"
    apiKey,         \* OPENAI_API_KEY is configured
    appPc,          \* position of handleUpload
    isProcessing,   \* App state isProcessing
    statusMessage,  \* App state statusMessage
    rooms,          \* result of analyzeFloorPlan held by handleUpload
    renders,        \* the renders table: sequence of rows, id = index
    now,            \* the clock read by new Date()
    analysis,       \* the call of analyzeFloorPlan
    job             \* one orchestrator call per job id

vars == <<build, apiKey, appPc, isProcessing, statusMessage, rooms, renders, now,
          analysis, job>>

appVars == <<appPc, isProcessing, statusMessage, rooms, analysis>>
storeVars == <<renders, now>>
envVars == <<build, apiKey>>

----------------------------------------------------------------------------
(* Bounds of the model *)

\* most rooms analyzeFloorPlan reports for one floor plan
MaxRooms == 1

\* the plans the projector is called on directly are 1..MaxW pixels wide
\* and 1..MaxH pixels high
MaxW == 3

\* most elements of the array the model answers analyzeFloorPlan with
MaxRaw == 2
MaxH == 50

(* Program constants *)

maxAttempts == 4
maxAttemptsStrict == 2
isoThreshold == 90
isoThresholdStrict == 70
roomThreshold == 60
pad == 40
depth == 28
skewXPct == 58
scaleYPct == 68

JobIds == 1..(1 + MaxRooms)

----------------------------------------------------------------------------
(* Values *)

\* An image reference (a data URI or a remote URL) with the pixel size of
\* the image behind it.  kind "none" stands for null.  The program learns
\* the size of an image it did not draw itself only by decoding it
\* (loadImage): until then w = h = 0.
Img(kind, attempt, w, h) == [kind |-> kind, attempt |-> attempt, w |-> w, h |-> h]
NoImage == Img("none", 0, 0, 0)

\* The uploaded floor plan (reader.result) and the sizes the image edit
\* endpoint may answer with, whatever size was asked for.
Upload == Img("upload", 0, 100, 50)
GenSizes == {<<1536, 1024>>, <<1024, 1024>>}

\* img.width and img.height of a loaded image
Decoded(img, sz) == [img EXCEPT !.w = sz[1], !.h = sz[2]]

\* An Error's message: the text of the template, and the score and reason
\* interpolated into it (score -1 and reason "" where the template has none).
Msg(text, score, reason) == [text |-> text, score |-> score, reason |-> reason]
NoMessage == Msg("<null>", -1, "")
PlainMsg(text) == Msg(text, -1, "")

DecodeError == PlainMsg("Failed to read uploaded floor plan image")
CanvasError == PlainMsg("Canvas context not available")
TimeoutError == PlainMsg("Request timed out while generating image. Please try again.")
NetworkError == PlainMsg("Failed to fetch")
UpstreamError == PlainMsg("upstream: error.error.message")
BodyError == PlainMsg("SyntaxError: Unexpected token")
GenDefaultError == PlainMsg("Failed to generate image from floor plan")
EvalDefaultError == PlainMsg("Failed to validate render faithfulness")
AnalyzeDefaultError == PlainMsg("Failed to analyze floor plan")
NoImageError == PlainMsg("No generated image returned")
ConfigError == PlainMsg("OpenAI API key is not configured")
TaintError == PlainMsg("SecurityError: tainted canvas")
StoreError == PlainMsg("store: insert failed")

----------------------------------------------------------------------------
(* Deterministic projector: generateDeterministicIsometricFromPlan *)

CeilDiv(a, b) == (a + b - 1) \div b

\* the canvas is not widened by the depth of the extrusion
ProjectedWidthNoDepth(W, H) == CeilDiv(100 * W + skewXPct * H, 100) + 2 * pad

\* canvas.width = ceil(W + |skewX| * H + 2 * pad + 2 * depth)
ProjectedWidth(W, H) == CeilDiv(100 * W + skewXPct * H, 100) + 2 * pad + 2 * depth

\* canvas.height = ceil(H * scaleY + 2 * pad + 2 * depth)
ProjectedHeight(W, H) == CeilDiv(scaleYPct * H, 100) + 2 * pad + 2 * depth

\* the data URL of the canvas the plan was drawn on
Projection(img) ==
    Img("projection", 0, ProjectedWidth(img.w, img.h), ProjectedHeight(img.w, img.h))

\* the canvas takes the size of the styled image
CompositeStyledSize(baseImg, styledImg) ==
    Img("composite", styledImg.attempt, styledImg.w, styledImg.h)

\* lockStructureOnStyledIsometric: the styled image redrawn on a canvas of
\* the size of the base image
Composite(baseImg, styledImg) ==
    Img("composite", styledImg.attempt, baseImg.w, baseImg.h)

----------------------------------------------------------------------------
(* Faithfulness evaluator: the content of the vision endpoint's answer and *)
(* what evaluateLayoutFaithfulness makes of it                             *)

AllFields == {"is_faithful", "score", "reason", "source_room_count", "generated_room_count"}

\* data.choices?.[0]?.message?.content: absent or empty ("empty"), text that
\* is not JSON ("invalid"), or a JSON object holding the fields of has
Content(form, has, f, s, r, sc, gc) ==
    [form |-> form, has |-> has, is_faithful |-> f, score |-> s, reason |-> r,
     source_room_count |-> sc, generated_room_count |-> gc]
NoContent == Content("none", {}, FALSE, 0, "", 0, 0)
EmptyContent == Content("empty", {}, FALSE, 0, "", 0, 0)
InvalidContent == Content("invalid", {}, FALSE, 0, "", 0, 0)
Object(f, s, r, sc, gc) == Content("object", AllFields, f, s, r, sc, gc)

DefaultReason == "No reason provided by validator."

\* JSON.parse(content || '{}') throws exactly on text that is not JSON
ParseThrows(content) == content.form = "invalid"

\* no default is applied to the reason: an empty reason is passed on
FaithfulnessResultEmptyReason(content) ==
    [isFaithful |-> "is_faithful" \in content.has /\ content.is_faithful,
     score |-> IF "score" \in content.has THEN content.score ELSE 0,
     reason |-> IF "reason" \in content.has THEN content.reason ELSE DefaultReason,
     sourceRoomCount |-> IF "source_room_count" \in content.has
                         THEN content.source_room_count ELSE 0,
     generatedRoomCount |-> IF "generated_room_count" \in content.has
                            THEN content.generated_room_count ELSE 0]

\* openai.ts: the FaithfulnessResult built from the parsed object
FaithfulnessResult(content) ==
    [isFaithful |-> "is_faithful" \in content.has /\ content.is_faithful,
     score |-> IF "score" \in content.has THEN content.score ELSE 0,
     reason |-> IF "reason" \in content.has /\ content.reason # ""
                THEN content.reason ELSE DefaultReason,
     sourceRoomCount |-> IF "source_room_count" \in content.has
                         THEN content.source_room_count ELSE 0,
     generatedRoomCount |-> IF "generated_room_count" \in content.has
                            THEN content.generated_room_count ELSE 0]

\* part_000: the earlier FaithfulnessResult, without the room counts
FaithfulnessResultEarlier(content) ==
    [isFaithful |-> "is_faithful" \in content.has /\ content.is_faithful,
     score |-> IF "score" \in content.has THEN content.score ELSE 0,
     reason |-> IF "reason" \in content.has /\ content.reason # ""
                THEN content.reason ELSE DefaultReason]

----------------------------------------------------------------------------
(* Acceptance policy of the orchestrator *)

\* equal room counts match even when they are 0
roomCountMatchesZero(v) == v.sourceRoomCount = v.generatedRoomCount

\* openai.ts: roomCountMatches
roomCountMatches(v) ==
    /\ v.sourceRoomCount > 0
    /\ v.generatedRoomCount > 0
    /\ v.sourceRoomCount = v.generatedRoomCount

\* the room counts are not looked at
AcceptedWithoutRoomCount(v) == v.isFaithful /\ v.score >= isoThreshold

\* openai.ts: the condition of the early return inside the attempt loop
Accepted(v) == v.isFaithful /\ v.score >= isoThreshold /\ roomCountMatches(v)

\* part_000: the condition of the early return inside the attempt loop
AcceptedStrict(v) == v.isFaithful /\ v.score >= isoThresholdStrict

\* the boundary score is rejected too
RoomRejectedInclusive(v) == v.score <= roomThreshold

\* an evaluation that is not faithful is rejected whatever its score
RoomRejectedUnfaithful(v) == ~v.isFaithful \/ v.score < roomThreshold

\* generateRoomRender: the condition of the throw
RoomRejected(v) == v.score < roomThreshold

\* bestStyled / bestResult: null, or the best attempt seen so far
Best(img, score, reason) == [imageUrl |-> img, score |-> score, reason |-> reason]
NoBest == Best(NoImage, -1, "")

\* a tie replaces the running best of the isometric loop
BestStyledOnTie(best, img, v) ==
    IF best = NoBest \/ v.score >= best.score THEN Best(img, v.score, "") ELSE best

\* openai.ts: if (!bestStyled || validation.score > bestStyled.score)
BestStyled(best, img, v) ==
    IF best = NoBest \/ v.score > best.score THEN Best(img, v.score, "") ELSE best

\* a tie replaces the running best
BestResultOnTie(best, img, v) ==
    IF best = NoBest \/ v.score >= best.score THEN Best(img, v.score, v.reason) ELSE best

\* part_000: if (!bestResult || validation.score > bestResult.score)
BestResult(best, img, v) ==
    IF best = NoBest \/ v.score > best.score THEN Best(img, v.score, v.reason) ELSE best

\* part_000: the message of the error thrown after the loop
LayoutMismatch(best) ==
    Msg("Layout mismatch detected",
        IF best = NoBest THEN 0 ELSE best.score,
        IF best = NoBest \/ best.reason = ""
        THEN "Generated image is not faithful to the uploaded plan."
        ELSE best.reason)

\* generateRoomRender: the message of the error thrown below the threshold
RoomMismatch(v) ==
    Msg("Room render is too different from source layout", v.score, v.reason)

----------------------------------------------------------------------------
(* The answers of the vision endpoint the model draws from, per kind of    *)
(* call.  Scores sit on both sides of each threshold of the code.          *)

IsoContents ==
    {Object(f, s, "Walls moved", c[1], c[2]) :
        f \in BOOLEAN, s \in {89, 90}, c \in {<<3, 3>>, <<3, 2>>, <<0, 0>>}}
    \cup {Object(f, 55, "Walls moved", 3, 3) : f \in BOOLEAN}
    \cup {Content("object", {"is_faithful", "score", "reason"},
                   TRUE, 90, "Walls moved", 0, 0)}
    \cup {EmptyContent, InvalidContent}

IsoStrictContents ==
    {Object(TRUE, s, "Walls moved", 0, 0) : s \in {69, 70}}
    \cup {Object(FALSE, 70, "Walls moved", 0, 0), Object(FALSE, 70, "", 0, 0)}
    \cup {InvalidContent}

RoomContents ==
    {Object(f, 60, "Room differs", 0, 0) : f \in BOOLEAN}
    \cup {Object(TRUE, 59, "Room differs", 0, 0), InvalidContent}

\* objects that lack any of the fields, for the direct calls
PartialContents ==
    {Content("object", has, f, s, r, 3, 3) :
        has \in SUBSET AllFields, f \in BOOLEAN, s \in {59, 60}, r \in {"", "Room differs"}}
    \cup {EmptyContent, InvalidContent}

Contents(kind) ==
    CASE kind = "iso" -> IsoContents
      [] kind = "iso_strict" -> IsoStrictContents
      [] build = "call" -> PartialContents
      [] OTHER -> RoomContents

----------------------------------------------------------------------------
(* One call of the orchestrator: generateIsometricView (kind "iso" is      *)
(* openai.ts, kind "iso_strict" is part_000) or generateRoomRender (kind   *)
(* "room").  The job id is the id of the render row the call is for.       *)

IdleJob ==
    [kind |-> "none", pc |-> "idle", ok |-> TRUE, attempt |-> 0,
     base |-> NoImage, source |-> NoImage, styled |-> NoImage,
     best |-> NoBest, evals |-> <<>>,
     content |-> NoContent,
     prompt |-> <<>>, evalSource |-> NoImage,
     timer |-> FALSE, req |-> "none",
     result |-> NoImage, error |-> NoMessage,
     nGen |-> 0, nEval |-> 0, settled |-> FALSE]

\* The request of a job, req: "none"; "pending" (fetch has not settled);
\* "streaming" (the response is there, its body is being read); "stalled"
\* (the response is there, its body never completes); "closed" (the body
\* was read); "failed" (the fetch failed); "aborted" (controller.abort()).
\* timer: the setTimeout of fetchWithTimeout is armed.

\* fetchWithTimeout up to its await of fetch: the timer is armed and the
\* request is sent
StartFetch(r) == [r EXCEPT !.timer = TRUE, !.req = "pending"]

\* response.json() has read the body
Consume(r) == [r EXCEPT !.req = "closed"]

\* throw: the promise of the call rejects with an Error of this message
Throw(r, m) == [r EXCEPT !.pc = "thrown", !.error = m]

\* return: the promise of the call resolves to this image
Return(r, img) == [r EXCEPT !.pc = "returned", !.result = img]

\* the prompts, as the sequence of their parts
StylePrompt == <<"style">>
RetryInstruction == <<"retry instruction">>
StylePromptEarlier == <<"style of part_000">>
RetryPass == <<"retry pass">>
RoomPrompt == <<"room">>

\* the retry instruction is appended on every attempt
AttemptPromptAlwaysRetry(attempt) == StylePrompt \o RetryInstruction

\* openai.ts: attemptPrompt
AttemptPrompt(attempt) ==
    IF attempt = 1 THEN StylePrompt ELSE StylePrompt \o RetryInstruction

\* part_000: attemptPrompt
AttemptPromptEarlier(attempt) ==
    IF attempt = 1 THEN StylePromptEarlier ELSE StylePromptEarlier \o RetryPass

\* generateImageFromFloorPlan up to its await of fetchWithTimeout: the edit
\* request of attempt k, with src as the image part and prompt as the
\* prompt part, is in flight
IssueGeneration(r, k, src, prompt) ==
    StartFetch([r EXCEPT !.pc = "gen_fetch", !.attempt = k, !.source = src,
                         !.prompt = prompt, !.nGen = @ + 1])

\* evaluateLayoutFaithfulness(src, img, mode) up to its await of
\* fetchWithTimeout
IssueEvaluation(r, src, img) ==
    StartFetch([r EXCEPT !.pc = "eval_fetch", !.evalSource = src, !.styled = img,
                         !.nEval = @ + 1])

\* openai.ts generateIsometricView, from the call to the await of loadImage
\* inside generateDeterministicIsometricFromPlan
CallIsometric(r) == [r EXCEPT !.kind = "iso", !.pc = "load"]

\* part_000 generateIsometricView, from the call to its first await
CallIsometricStrict(r) ==
    IF ~apiKey
    THEN Throw([r EXCEPT !.kind = "iso_strict"], ConfigError)
    ELSE IssueGeneration([r EXCEPT !.kind = "iso_strict"], 1, Upload,
                         AttemptPromptEarlier(1))

\* the key is not looked at
CallRoomRenderUnchecked(r) == IssueGeneration([r EXCEPT !.kind = "room"], 1, Upload, RoomPrompt)

\* generateRoomRender, from the call to its first await
CallRoomRender(r) ==
    IF ~apiKey
    THEN Throw([r EXCEPT !.kind = "room"], ConfigError)
    ELSE IssueGeneration([r EXCEPT !.kind = "room"], 1, Upload, RoomPrompt)

\* attempt 1 starts although there is no key
IsoAfterProjectionUnchecked(r) == IssueGeneration(r, 1, r.base, AttemptPrompt(1))

\* openai.ts generateIsometricView once baseIsometric is there: without a
\* key it is returned, with a key attempt 1 starts from it
IsoAfterProjection(r) ==
    IF ~apiKey THEN Return(r, r.base) ELSE IssueGeneration(r, 1, r.base, AttemptPrompt(1))

\* generateDeterministicIsometricFromPlan: the image of the plan has loaded
\* or not; the projection is drawn and generateIsometricView goes on
IsoProjected(j) ==
    /\ job[j].pc = "load"
    /\ \/ job' = [job EXCEPT ![j] = Throw(@, DecodeError)]
       \/ job' = [job EXCEPT ![j] = Throw(@, CanvasError)]
       \/ job' = [job EXCEPT ![j] =
                    IsoAfterProjection([@ EXCEPT !.base = Projection(Upload)])]
    /\ UNCHANGED <<envVars, appVars, storeVars>>

\* one AbortController for all calls: the timer of a job aborts every
\* request that is pending
FetchSettlesSharedController(j, from, to) ==
    /\ job[j].pc = from
    /\ \/ \E ok \in BOOLEAN :
            job' = [job EXCEPT ![j] =
                      [@ EXCEPT !.pc = to, !.ok = ok, !.timer = FALSE,
                                !.req = "streaming"]]
       \/ job' = [job EXCEPT ![j] =
                    [@ EXCEPT !.pc = to, !.timer = FALSE, !.req = "stalled"]]
       \/ job' = [job EXCEPT ![j] =
                    Throw([@ EXCEPT !.timer = FALSE, !.req = "failed"], NetworkError)]
       \/ job' = [k \in JobIds |->
                    IF job[k].req = "pending"
                    THEN Throw([job[k] EXCEPT !.timer = FALSE, !.req = "aborted"],
                               TimeoutError)
                    ELSE job[k]]
    /\ UNCHANGED <<envVars, appVars, storeVars>>

\* the timer rejects the call but does not abort the request, and every
\* failure of the fetch is reported as a timeout
FetchSettlesNoAbort(j, from, to) ==
    /\ job[j].pc = from
    /\ \/ \E ok \in BOOLEAN :
            job' = [job EXCEPT ![j] =
                      [@ EXCEPT !.pc = to, !.ok = ok, !.timer = FALSE,
                                !.req = "streaming"]]
       \/ job' = [job EXCEPT ![j] =
                    [@ EXCEPT !.pc = to, !.timer = FALSE, !.req = "stalled"]]
       \/ job' = [job EXCEPT ![j] =
                    Throw([@ EXCEPT !.timer = FALSE, !.req = "failed"], TimeoutError)]
       \/ job' = [job EXCEPT ![j] =
                    Throw([@ EXCEPT !.timer = FALSE], TimeoutError)]
    /\ UNCHANGED <<envVars, appVars, storeVars>>

\* fetchWithTimeout after its await of fetch.  The response arrives: the
\* finally clears the timer and the response is handed to the caller, who
\* reads its body; the body completes, or it never does (whatever the
\* status of the response was).  Or the fetch fails: the error is thrown on as it is.
\* Or the timer fires: controller.abort() ends the request, the fetch
\* rejects with AbortError and the timeout error is thrown.
FetchSettles(j, from, to) ==
    /\ job[j].pc = from
    /\ \/ \E ok \in BOOLEAN :
            job' = [job EXCEPT ![j] =
                      [@ EXCEPT !.pc = to, !.ok = ok, !.timer = FALSE,
                                !.req = "streaming"]]
       \/ job' = [job EXCEPT ![j] =
                    [@ EXCEPT !.pc = to, !.timer = FALSE, !.req = "stalled"]]
       \/ job' = [job EXCEPT ![j] =
                    Throw([@ EXCEPT !.timer = FALSE, !.req = "failed"], NetworkError)]
       \/ job' = [job EXCEPT ![j] =
                    Throw([@ EXCEPT !.timer = FALSE, !.req = "aborted"], TimeoutError)]
    /\ UNCHANGED <<envVars, appVars, storeVars>>

GenResponse(j) == FetchSettles(j, "gen_fetch", "gen_body")

EvalResponse(j) == FetchSettles(j, "eval_fetch", "eval_body")

\* the loop does not wait for an evaluation: after the image of an attempt
\* the next generation request is issued at once
GenBodySkipsEvaluation(j) ==
    /\ job[j].pc = "gen_body"
    /\ job[j].req = "streaming"
    /\ \/ job' = [job EXCEPT ![j] = Throw(Consume(@), BodyError)]
       \/ /\ ~job[j].ok
          /\ \E m \in {UpstreamError, GenDefaultError} :
                job' = [job EXCEPT ![j] = Throw(Consume(@), m)]
       \/ /\ job[j].ok
          /\ job' = [job EXCEPT ![j] = Throw(Consume(@), NoImageError)]
       \/ /\ job[j].ok
          /\ job' = [job EXCEPT ![j] =
                        IF @.kind = "iso" /\ @.attempt < maxAttempts
                        THEN IssueGeneration(Consume(@), @.attempt + 1, @.base,
                                             AttemptPrompt(@.attempt + 1))
                        ELSE IssueEvaluation(Consume(@),
                                             IF @.kind = "iso" THEN @.base ELSE Upload,
                                             Img("generated", @.attempt, 0, 0))]
    /\ UNCHANGED <<envVars, appVars, storeVars>>

\* generateImageFromFloorPlan after the response: the body is read, an
\* error answer is thrown, the image is taken; the caller then starts the
\* evaluation of the image against the source of the request
GenBody(j) ==
    /\ job[j].pc = "gen_body"
    /\ job[j].req = "streaming"
    /\ \/ job' = [job EXCEPT ![j] = Throw(Consume(@), BodyError)]
       \/ /\ ~job[j].ok
          /\ \E m \in {UpstreamError, GenDefaultError} :
                job' = [job EXCEPT ![j] = Throw(Consume(@), m)]
       \/ /\ job[j].ok
          /\ job' = [job EXCEPT ![j] = Throw(Consume(@), NoImageError)]
       \/ /\ job[j].ok
          /\ job' = [job EXCEPT ![j] =
                        IssueEvaluation(Consume(@),
                                        IF @.kind = "iso" THEN @.base ELSE Upload,
                                        Img("generated", @.attempt, 0, 0))]
    /\ UNCHANGED <<envVars, appVars, storeVars>>

\* the loop goes on after an accepted attempt instead of returning
IsoAfterEvaluationNoReturn(r, v) ==
    LET r2 == [r EXCEPT !.best = BestStyled(r.best, r.styled, v),
                        !.evals = Append(@, v)]
    IN  IF r.attempt + 1 <= maxAttempts
        THEN IssueGeneration(r2, r.attempt + 1, r.base,
                                  AttemptPrompt(r.attempt + 1))
        ELSE IF Accepted(v) THEN [r2 EXCEPT !.pc = "lock"] ELSE Return(r2, r.base)

\* the loop ends with a throw, as in part_000, instead of the fallback
IsoAfterEvaluationThrows(r, v) ==
    LET r2 == [r EXCEPT !.best = BestStyled(r.best, r.styled, v),
                        !.evals = Append(@, v)]
    IN  IF Accepted(v) THEN [r2 EXCEPT !.pc = "lock"]
        ELSE IF r.attempt + 1 <= maxAttempts
             THEN IssueGeneration(r2, r.attempt + 1, r.base,
                                  AttemptPrompt(r.attempt + 1))
             ELSE Throw(r2, LayoutMismatch(r2.best))

\* the loop makes one attempt more than maxAttempts
IsoAfterEvaluationOneMore(r, v) ==
    LET r2 == [r EXCEPT !.best = BestStyled(r.best, r.styled, v),
                        !.evals = Append(@, v)]
    IN  IF Accepted(v) THEN [r2 EXCEPT !.pc = "lock"]
        ELSE IF r.attempt + 1 <= maxAttempts + 1
             THEN IssueGeneration(r2, r.attempt + 1, r.base,
                                  AttemptPrompt(r.attempt + 1))
             ELSE Return(r2, r.base)

\* after the last rejected attempt the best image seen is returned
IsoAfterEvaluationReturnsBest(r, v) ==
    LET r2 == [r EXCEPT !.best = BestStyled(r.best, r.styled, v),
                        !.evals = Append(@, v)]
    IN  IF Accepted(v) THEN [r2 EXCEPT !.pc = "lock"]
        ELSE IF r.attempt + 1 <= maxAttempts
             THEN IssueGeneration(r2, r.attempt + 1, r.base,
                                  AttemptPrompt(r.attempt + 1))
             ELSE Return(r2, r2.best.imageUrl)

IsoAfterEvaluation(r, v) ==
    LET r2 == [r EXCEPT !.best = BestStyled(r.best, r.styled, v),
                        !.evals = Append(@, v)]
    IN  IF Accepted(v) THEN [r2 EXCEPT !.pc = "lock"]
        ELSE IF r.attempt + 1 <= maxAttempts
             THEN IssueGeneration(r2, r.attempt + 1, r.base,
                                  AttemptPrompt(r.attempt + 1))
             ELSE Return(r2, r.base)

\* part_000 generateIsometricView: the loop body after the evaluation
IsoStrictAfterEvaluation(r, v) ==
    LET r2 == [r EXCEPT !.best = BestResult(r.best, r.styled, v),
                        !.evals = Append(@, v)]
    IN  IF AcceptedStrict(v) THEN Return(r2, r.styled)
        ELSE IF r.attempt + 1 <= maxAttemptsStrict
             THEN IssueGeneration(r2, r.attempt + 1, Upload,
                                  AttemptPromptEarlier(r.attempt + 1))
             ELSE Throw(r2, LayoutMismatch(r2.best))

\* a rejected room render is generated once more
RoomAfterEvaluationRetries(r, v) ==
    LET r2 == [r EXCEPT !.evals = Append(@, v)]
    IN  IF RoomRejected(v)
        THEN IF r.attempt < 2
             THEN IssueGeneration(r2, r.attempt + 1, Upload, RoomPrompt)
             ELSE Throw(r2, RoomMismatch(v))
        ELSE Return(r2, r.styled)

\* generateRoomRender after the evaluation
RoomAfterEvaluation(r, v) ==
    LET r2 == [r EXCEPT !.evals = Append(@, v)]
    IN  IF RoomRejected(v) THEN Throw(r2, RoomMismatch(v))
        ELSE Return(r2, r.styled)

\* the evaluateLayoutFaithfulness of the revision that runs
Evaluation(c) ==
    IF build = "earlier" THEN FaithfulnessResultEarlier(c) ELSE FaithfulnessResult(c)

\* evaluateLayoutFaithfulness after the response: the body is read, an
\* error answer is thrown, the content is parsed; the caller goes on
EvalBody(j) ==
    /\ job[j].pc = "eval_body"
    /\ job[j].req = "streaming"
    /\ \/ job' = [job EXCEPT ![j] = Throw(Consume(@), BodyError)]
       \/ /\ ~job[j].ok
          /\ \E m \in {UpstreamError, EvalDefaultError} :
                job' = [job EXCEPT ![j] = Throw(Consume(@), m)]
       \/ /\ job[j].ok
          /\ \E c \in Contents(job[j].kind) :
                LET r == [Consume(job[j]) EXCEPT !.content = c]
                IN  IF ParseThrows(c)
                    THEN job' = [job EXCEPT ![j] = Throw(r, BodyError)]
                    ELSE job' = [job EXCEPT ![j] =
                            CASE r.kind = "iso" ->
                                    IsoAfterEvaluation(r, Evaluation(c))
                              [] r.kind = "iso_strict" ->
                                    IsoStrictAfterEvaluation(r, Evaluation(c))
                              [] OTHER ->
                                    RoomAfterEvaluation(r, Evaluation(c))]
    /\ UNCHANGED <<envVars, appVars, storeVars>>

\* openai.ts lockStructureOnStyledIsometric: both images load or one does
\* not, the canvas is drawn and read back
IsoLock(j) ==
    /\ job[j].pc = "lock"
    /\ \/ job' = [job EXCEPT ![j] = Throw(@, DecodeError)]
       \/ job' = [job EXCEPT ![j] = Throw(@, CanvasError)]
       \/ job' = [job EXCEPT ![j] = Throw(@, TaintError)]
       \/ \E sz \in GenSizes :
            LET styledImg == Decoded(job[j].styled, sz)
            IN  job' = [job EXCEPT ![j] =
                          Return([@ EXCEPT !.styled = styledImg],
                                 Composite(@.base, styledImg))]
    /\ UNCHANGED <<envVars, appVars, storeVars>>

----------------------------------------------------------------------------
(* analyzeFloorPlan: room detection *)

\* an element of the JSON array the model answers with: a string, or a
\* value of another type
Str(t) == [isString |-> TRUE, text |-> t]
NonString == [isString |-> FALSE, text |-> "42"]
RawElements == {Str("Kitchen"), Str(" Kitchen "), Str("Bedroom"), Str("  "), NonString}

\* String.prototype.trim on the texts of RawElements
Trim(t) ==
    CASE t = " Kitchen " -> "Kitchen"
      [] t = "  " -> ""
      [] OTHER -> t

RECURSIVE Unique(_, _)
\* [...new Set(list)]: the first occurrence of each value, in order
Unique(list, seen) ==
    IF list = <<>> THEN <<>>
    ELSE IF Head(list) \in seen THEN Unique(Tail(list), seen)
         ELSE <<Head(list)>> \o Unique(Tail(list), seen \cup {Head(list)})

\* the list is returned without the pass through the Set
NormalizeRoomsNoSet(raw) ==
    LET mapped == [i \in DOMAIN raw |->
                      IF raw[i].isString THEN Trim(raw[i].text) ELSE ""]
    IN  SelectSeq(mapped, LAMBDA t : t # "")

\* rooms.map(trim or '').filter(Boolean), then the Set
NormalizeRooms(raw) ==
    LET mapped == [i \in DOMAIN raw |->
                      IF raw[i].isString THEN Trim(raw[i].text) ELSE ""]
        kept == SelectSeq(mapped, LAMBDA t : t # "")
    IN  Unique(kept, {})

\* the arrays the model may answer with; the App is given those that name
\* at most MaxRooms rooms
RawArrays ==
    {raw \in UNION {[1..n -> RawElements] : n \in 0..MaxRaw} :
        build = "call" \/ Len(NormalizeRooms(raw)) <= MaxRooms}

\* JSON.parse(cleanedContent): an array, or a value that is not an array;
\* NoParsed while nothing is parsed
Parsed(isArray, elems) == [isArray |-> isArray, elems |-> elems]
NoParsed == Parsed(FALSE, <<Str("<none>")>>)
NotAnArray == Parsed(FALSE, <<>>)

IdleAnalysis ==
    [pc |-> "idle", ok |-> TRUE, nReq |-> 0, parsed |-> NoParsed,
     result |-> <<>>, error |-> NoMessage]

\* analyzeFloorPlan from the call to its first await
CallAnalyze(a) ==
    IF ~apiKey
    THEN [a EXCEPT !.pc = "thrown", !.error = ConfigError]
    ELSE [a EXCEPT !.pc = "fetch", !.nReq = @ + 1]

\* fetchWithTimeout inside analyzeFloorPlan
AnalyzeResponse ==
    /\ analysis.pc = "fetch"
    /\ \/ \E ok \in BOOLEAN : analysis' = [analysis EXCEPT !.pc = "body", !.ok = ok]
       \/ analysis' = [analysis EXCEPT !.pc = "thrown", !.error = NetworkError]
       \/ analysis' = [analysis EXCEPT !.pc = "thrown", !.error = TimeoutError]
    /\ UNCHANGED <<envVars, storeVars, appPc, isProcessing, statusMessage, rooms, job>>

\* analyzeFloorPlan after the response
AnalyzeBody ==
    /\ analysis.pc = "body"
    /\ \/ analysis' = [analysis EXCEPT !.pc = "thrown", !.error = BodyError]
       \/ /\ ~analysis.ok
          /\ \E m \in {UpstreamError, AnalyzeDefaultError} :
                analysis' = [analysis EXCEPT !.pc = "thrown", !.error = m]
       \/ /\ analysis.ok
          /\ analysis' = [analysis EXCEPT !.pc = "returned", !.parsed = NotAnArray,
                                          !.result = <<>>]
       \/ /\ analysis.ok
          /\ \E raw \in RawArrays :
                analysis' = [analysis EXCEPT !.pc = "returned",
                                             !.parsed = Parsed(TRUE, raw),
                                             !.result = NormalizeRooms(raw)]
    /\ UNCHANGED <<envVars, storeVars, appPc, isProcessing, statusMessage, rooms, job>>

----------------------------------------------------------------------------
(* The renders table *)

\* the insert does not name the status: the column default applies
NewRenderDefaultStatus(id, type, room) ==
    [id |-> id, render_type |-> type, room_name |-> room,
     image_url |-> NoImage, status |-> "pending",
     error_message |-> NoMessage, completed_at |-> 0]

\* the row a render insert of handleUpload creates: status 'processing',
\* the columns the insert does not name are null
NewRender(id, type, room) ==
    [id |-> id, render_type |-> type, room_name |-> room,
     image_url |-> NoImage, status |-> "processing",
     error_message |-> NoMessage, completed_at |-> 0]

\* the update does not write completed_at
UpdateCompletedNoTimestamp(rows, id, img, at) ==
    [i \in DOMAIN rows |->
        IF rows[i].id = id
        THEN [rows[i] EXCEPT !.image_url = img, !.status = "completed"]
        ELSE rows[i]]

\* .update({image_url, status: 'completed', completed_at}).eq('id', id)
UpdateCompleted(rows, id, img, at) ==
    [i \in DOMAIN rows |->
        IF rows[i].id = id
        THEN [rows[i] EXCEPT !.image_url = img, !.status = "completed",
                             !.completed_at = at]
        ELSE rows[i]]

\* the update writes a fixed text instead of the message of the error
UpdateFailedFixedText(rows, id, m) ==
    [i \in DOMAIN rows |->
        IF rows[i].id = id
        THEN [rows[i] EXCEPT !.status = "failed",
                             !.error_message = PlainMsg("Generation failed")]
        ELSE rows[i]]

\* the update is not filtered by id: every row is written
UpdateFailedEveryRow(rows, id, m) ==
    [i \in DOMAIN rows |->
        [rows[i] EXCEPT !.status = "failed", !.error_message = m]]

\* .update({status: 'failed', error_message}).eq('id', id)
UpdateFailed(rows, id, m) ==
    [i \in DOMAIN rows |->
        IF rows[i].id = id
        THEN [rows[i] EXCEPT !.status = "failed", !.error_message = m]
        ELSE rows[i]]

\* the outcome of the call is not looked at: the row is written completed
SettleRowAlwaysCompleted(rows, id, r, at) == UpdateCompleted(rows, id, r.result, at)

\* the .then / try and the .catch of handleUpload around one orchestrator
\* call: the row of the job is written from the outcome of the call
SettleRow(rows, id, r, at) ==
    IF r.pc = "returned"
    THEN UpdateCompleted(rows, id, r.result, at)
    ELSE UpdateFailed(rows, id, r.error)

----------------------------------------------------------------------------
(* handleUpload: the part both revisions of App share *)

\* the catch blocks of handleUpload
UploadFails(m) ==
    /\ statusMessage' = "Error: " \o m.text
    /\ isProcessing' = FALSE
    /\ appPc' = "done"

HandleUpload ==
    /\ appPc = "idle"
    /\ build \in {"current", "earlier"}
    /\ isProcessing' = TRUE
    /\ statusMessage' = "Creating project..."
    /\ appPc' = "insert_project"
    /\ UNCHANGED <<envVars, storeVars, rooms, analysis, job>>

ProjectInserted ==
    /\ appPc = "insert_project"
    /\ \/ UploadFails(StoreError)
       \/ /\ appPc' = "reading"
          /\ UNCHANGED <<isProcessing, statusMessage>>
    /\ UNCHANGED <<envVars, storeVars, rooms, analysis, job>>

\* reader.onloadend up to the await of the floor_plans insert
ReaderLoaded ==
    /\ appPc = "reading"
    /\ statusMessage' = "Saving floor plan..."
    /\ appPc' = "insert_floor_plan"
    /\ UNCHANGED <<envVars, storeVars, rooms, analysis, job, isProcessing>>

----------------------------------------------------------------------------
(* handleUpload of App.tsx (current revision) *)

FloorPlanInserted ==
    /\ appPc = "insert_floor_plan"
    /\ build = "current"
    /\ \/ UploadFails(StoreError)
       \/ /\ statusMessage' = "Generating strict layout-faithful 3D isometric view..."
          /\ appPc' = "insert_iso"
          /\ UNCHANGED isProcessing
    /\ UNCHANGED <<envVars, storeVars, rooms, analysis, job>>

\* the isometric row is inserted and generateIsometricView is called
IsometricInserted ==
    /\ appPc = "insert_iso"
    /\ build = "current"
    /\ \/ /\ UploadFails(StoreError)
          /\ UNCHANGED <<renders, job>>
       \/ /\ renders' = Append(renders, NewRender(Len(renders) + 1, "isometric", ""))
          /\ job' = [job EXCEPT ![Len(renders) + 1] = CallIsometric(@)]
          /\ appPc' = "await_iso"
          /\ UNCHANGED <<isProcessing, statusMessage>>
    /\ UNCHANGED <<envVars, now, rooms, analysis>>

\* generateIsometricView has settled: the try writes completed, the catch
\* writes failed; loadCurrentProject is awaited next
IsometricSettled ==
    /\ appPc = "await_iso"
    /\ build = "current"
    /\ \E j \in JobIds :
        /\ job[j].pc \in {"returned", "thrown"}
        /\ ~job[j].settled
        /\ renders' = SettleRow(renders, j, job[j], now)
        /\ job' = [job EXCEPT ![j].settled = TRUE]
    /\ now' = now + 1
    /\ appPc' = "reload"
    /\ UNCHANGED <<envVars, isProcessing, statusMessage, rooms, analysis>>

\* loadCurrentProject has returned
ProjectReloaded ==
    /\ appPc = "reload"
    /\ statusMessage' = ""
    /\ isProcessing' = FALSE
    /\ appPc' = "done"
    /\ UNCHANGED <<envVars, storeVars, rooms, analysis, job>>

----------------------------------------------------------------------------
(* handleUpload of the earlier revision of App *)

\* the floor plan is inserted and analyzeFloorPlan is called
FloorPlanInsertedEarlier ==
    /\ appPc = "insert_floor_plan"
    /\ build = "earlier"
    /\ \/ /\ UploadFails(StoreError)
          /\ UNCHANGED analysis
       \/ /\ statusMessage' = "Analyzing floor plan with AI..."
          /\ analysis' = CallAnalyze(analysis)
          /\ appPc' = "await_analysis"
          /\ UNCHANGED isProcessing
    /\ UNCHANGED <<envVars, storeVars, rooms, job>>

\* analyzeFloorPlan has settled: its error goes to the catch of the handler,
\* its rooms are kept and the isometric row is inserted; the parsed answer,
\* a local of the call, is gone
AnalysisSettled ==
    /\ appPc = "await_analysis"
    /\ \/ /\ analysis.pc = "thrown"
          /\ UploadFails(analysis.error)
          /\ UNCHANGED rooms
       \/ /\ analysis.pc = "returned"
          /\ rooms' = analysis.result
          /\ statusMessage' = "Generating 3D isometric view..."
          /\ appPc' = "insert_iso"
          /\ UNCHANGED isProcessing
    /\ analysis' = [analysis EXCEPT !.parsed = NoParsed]
    /\ UNCHANGED <<envVars, storeVars, job>>

\* the isometric row is inserted, the room inserts are started
IsometricInsertedEarlier ==
    /\ appPc = "insert_iso"
    /\ build = "earlier"
    /\ \/ /\ UploadFails(StoreError)
          /\ UNCHANGED renders
       \/ /\ renders' = Append(renders, NewRender(Len(renders) + 1, "isometric", ""))
          /\ statusMessage' = "Generating room renders..."
          /\ appPc' = "insert_rooms"
          /\ UNCHANGED isProcessing
    /\ UNCHANGED <<envVars, now, rooms, analysis, job>>

RECURSIVE RoomRows(_, _, _)
\* the rows of the room inserts that succeeded, in the order of rooms
RoomRows(names, succeeded, nextId) ==
    IF names = <<>> THEN <<>>
    ELSE IF Len(names) \in succeeded
         THEN RoomRows(SubSeq(names, 1, Len(names) - 1), succeeded, nextId)
              \o <<NewRender(nextId + Cardinality({i \in succeeded : i < Len(names)}),
                             "room_wise", names[Len(names)])>>
         ELSE RoomRows(SubSeq(names, 1, Len(names) - 1), succeeded, nextId)

\* Promise.all of the room inserts has resolved: every orchestrator call is
\* started (none is awaited) and the handler ends
RoomsInserted ==
    /\ appPc = "insert_rooms"
    /\ \E succeeded \in SUBSET (1..Len(rooms)) :
        LET added == RoomRows(rooms, succeeded, Len(renders) + 1)
            iso == Len(renders)
        IN  /\ renders' = renders \o added
            /\ job' = [j \in JobIds |->
                        IF j = iso THEN CallIsometricStrict(job[j])
                        ELSE IF j > iso /\ j <= iso + Len(added)
                             THEN CallRoomRender(job[j])
                             ELSE job[j]]
    /\ statusMessage' = ""
    /\ isProcessing' = FALSE
    /\ appPc' = "done"
    /\ UNCHANGED <<envVars, now, rooms, analysis>>

\* the .then and the .catch of one orchestrator call
JobSettled(j) ==
    /\ build = "earlier"
    /\ job[j].pc \in {"returned", "thrown"}
    /\ ~job[j].settled
    /\ renders' = SettleRow(renders, j, job[j], now)
    /\ now' = now + 1
    /\ job' = [job EXCEPT ![j].settled = TRUE]
    /\ UNCHANGED <<envVars, appVars>>

----------------------------------------------------------------------------
(* A direct call of a service function of openai.ts (build "call") *)

InvokeRoomRender ==
    /\ build = "call"
    /\ job[1].pc = "idle"
    /\ job' = [job EXCEPT ![1] = CallRoomRender(@)]
    /\ UNCHANGED <<envVars, storeVars, appVars>>

InvokeAnalyze ==
    /\ build = "call"
    /\ analysis.pc = "idle"
    /\ job[1].kind # "projector"
    /\ analysis' = CallAnalyze(analysis)
    /\ UNCHANGED <<envVars, storeVars, appPc, isProcessing, statusMessage, rooms, job>>

\* generateDeterministicIsometricFromPlan is called, on its own, on a plan
\* of W x H pixels, up to its await of loadImage
InvokeProjector ==
    /\ build = "call"
    /\ job[1].pc = "idle"
    /\ analysis.pc = "idle"
    /\ \E W \in 1..MaxW, H \in 1..MaxH :
          job' = [job EXCEPT ![1] =
                    [@ EXCEPT !.kind = "projector", !.pc = "project",
                              !.source = Img("upload", 0, W, H)]]
    /\ UNCHANGED <<envVars, storeVars, appVars>>

\* generateDeterministicIsometricFromPlan after loadImage: the image did
\* not load, there is no canvas context, or the projection is drawn
ProjectorSettles(j) ==
    /\ job[j].pc = "project"
    /\ \/ job' = [job EXCEPT ![j] = Throw(@, DecodeError)]
       \/ job' = [job EXCEPT ![j] = Throw(@, CanvasError)]
       \/ job' = [job EXCEPT ![j] = Return(@, Projection(@.source))]
    /\ UNCHANGED <<envVars, appVars, storeVars>>

----------------------------------------------------------------------------

Init ==
    /\ build \in {"current", "earlier", "call"}
    /\ apiKey \in BOOLEAN
    /\ appPc = "idle"
    /\ isProcessing = FALSE
    /\ statusMessage = ""
    /\ rooms = <<>>
    /\ renders = <<>>
    /\ now = 1
    /\ analysis = IdleAnalysis
    /\ job = [j \in JobIds |-> IdleJob]

Next ==
    \/ HandleUpload
    \/ ProjectInserted
    \/ ReaderLoaded
    \/ FloorPlanInserted
    \/ IsometricInserted
    \/ IsometricSettled
    \/ ProjectReloaded
    \/ FloorPlanInsertedEarlier
    \/ AnalysisSettled
    \/ IsometricInsertedEarlier
    \/ RoomsInserted
    \/ \E j \in JobIds : JobSettled(j)
    \/ InvokeRoomRender
    \/ InvokeAnalyze
    \/ InvokeProjector
    \/ \E j \in JobIds : ProjectorSettles(j)
    \/ AnalyzeResponse
    \/ AnalyzeBody
    \/ \E j \in JobIds : IsoProjected(j)
    \/ \E j \in JobIds : GenResponse(j)
    \/ \E j \in JobIds : GenBody(j)
    \/ \E j \in JobIds : EvalResponse(j)
    \/ \E j \in JobIds : EvalBody(j)
    \/ \E j \in JobIds : IsoLock(j)

Spec == Init /\ [][Next]_vars

----------------------------------------------------------------------------
(* Properties *)

\* the row of a job, once it is inserted
HasRow(j) == j \in DOMAIN renders

\* the first attempt of a list of evaluations that satisfies P is attempt k
FirstAt(evals, k, P(_)) ==
    /\ k \in DOMAIN evals
    /\ P(evals[k])
    /\ \A i \in 1..(k - 1) : ~P(evals[i])

\* faithful with a score of at least 90
FaithfulAt90(v) == v.isFaithful /\ v.score >= 90

\* faithful with a score of at least 90 and equal, positive room counts
FaithfulAt90WithRooms(v) ==
    /\ v.isFaithful
    /\ v.score >= 90
    /\ v.sourceRoomCount > 0
    /\ v.generatedRoomCount > 0
    /\ v.sourceRoomCount = v.generatedRoomCount

\* exactly k attempts were made and what is returned is the image of
\* attempt k, redrawn at the size of the projection
ExactlyAttempts(r, k) ==
    /\ r.nGen = k
    /\ r.nEval = k
    /\ Len(r.evals) = k
    /\ r.attempt = k
    /\ r.pc \in {"lock", "returned", "thrown"}
    /\ r.pc = "returned" =>
          /\ r.result.kind = "composite"
          /\ r.result.attempt = k
    /\ r.pc = "thrown" => r.error \in {DecodeError, CanvasError, TaintError}

\* C1 as stated: in generateIsometricView of openai.ts, if attempt k is the
\* first whose evaluation is faithful with a score of at least 90, exactly k
\* generation and k evaluation requests are made and the image of attempt k
\* is what is returned.
C1_AsStated ==
    \A j \in JobIds : \A k \in 1..maxAttempts :
        (job[j].kind = "iso" /\ FirstAt(job[j].evals, k, FaithfulAt90))
            => ExactlyAttempts(job[j], k)

\* C1 amended: in generateIsometricView of openai.ts, if attempt k is the
\* first whose evaluation is faithful with a score of at least 90 and with
\* equal, positive source and generated room counts, exactly k generation
\* and k evaluation requests are made, no further attempt follows, and if
\* the call returns it returns the image of attempt k redrawn at the size of
\* the projection (the redraw may fail, and then the call throws).
C1_FirstAcceptedEndsTheJob ==
    \A j \in JobIds : \A k \in 1..maxAttempts :
        (job[j].kind = "iso" /\ FirstAt(job[j].evals, k, FaithfulAt90WithRooms))
            => ExactlyAttempts(job[j], k)

\* two rejected attempts with rising scores, then an accepted third attempt
\* whose image is returned
C1_Witness ==
    \E j \in JobIds :
        /\ job[j].kind = "iso"
        /\ job[j].pc = "returned"
        /\ Len(job[j].evals) = 3
        /\ ~job[j].evals[1].isFaithful
        /\ ~job[j].evals[2].isFaithful
        /\ job[j].evals[1].score < job[j].evals[2].score
        /\ FirstAt(job[j].evals, 3, FaithfulAt90WithRooms)
        /\ job[j].result = Img("composite", 3, job[j].base.w, job[j].base.h)
        /\ job[j].nGen = 3

\* C2: in generateIsometricView of openai.ts, when all maxAttempts = 4
\* attempts were evaluated and none was accepted, the call returns the
\* deterministic projection and does not throw, and the caller writes the
\* row as completed with image_url set to that projection.
C2_ExhaustionFallsBack ==
    \A j \in JobIds :
        (/\ job[j].kind = "iso"
         /\ Len(job[j].evals) = 4
         /\ \A i \in 1..4 : ~FaithfulAt90WithRooms(job[j].evals[i]))
        => /\ job[j].pc = "returned"
           /\ job[j].result = Projection(Upload)
           /\ job[j].nGen = 4
           /\ job[j].settled =>
                /\ HasRow(j)
                /\ renders[j].status = "completed"
                /\ renders[j].image_url = Projection(Upload)
                /\ renders[j].error_message = NoMessage

\* four rejected attempts, the last a faithful attempt at 90 whose room
\* counts differ, and the row settled as completed
C2_Witness ==
    \E j \in JobIds :
        /\ job[j].kind = "iso"
        /\ Len(job[j].evals) = 4
        /\ FaithfulAt90(job[j].evals[4])
        /\ job[j].settled
        /\ renders[j].status = "completed"
        /\ renders[j].image_url.kind = "projection"

\* the greatest score of a list of evaluations
MaxScore(evals) ==
    CHOOSE s \in {evals[i].score : i \in DOMAIN evals} :
        \A i \in DOMAIN evals : evals[i].score <= s

\* the earliest attempt that reached the greatest score
EarliestMax(evals) ==
    CHOOSE k \in DOMAIN evals :
        /\ evals[k].score = MaxScore(evals)
        /\ \A i \in 1..(k - 1) : evals[i].score < MaxScore(evals)

\* faithful with a score of at least 70
FaithfulAt70(v) == v.isFaithful /\ v.score >= 70

\* C3: in generateIsometricView of part_000 (maxAttempts = 2), when both
\* attempts were evaluated and none was faithful with a score of at least
\* 70, the call throws the layout-mismatch error whose message holds the
\* greatest score of the attempts and the reason of the earliest attempt
\* with that score, and the row of the job is written as failed with it.
C3_StrictExhaustionFails ==
    \A j \in JobIds :
        (/\ job[j].kind = "iso_strict"
         /\ Len(job[j].evals) = 2
         /\ \A i \in 1..2 : ~FaithfulAt70(job[j].evals[i]))
        => LET e == job[j].evals
               m == Msg("Layout mismatch detected", MaxScore(e), e[EarliestMax(e)].reason)
           IN  /\ job[j].pc = "thrown"
               /\ job[j].error = m
               /\ job[j].settled =>
                    /\ HasRow(j)
                    /\ renders[j].status = "failed"
                    /\ renders[j].error_message = m
                    /\ renders[j].image_url = NoImage

\* two rejected attempts with the same score and different reasons, the job
\* failed with the reason of the first
C3_Witness ==
    \E j \in JobIds :
        /\ job[j].kind = "iso_strict"
        /\ Len(job[j].evals) = 2
        /\ job[j].evals[1].score = job[j].evals[2].score
        /\ job[j].evals[1].reason # job[j].evals[2].reason
        /\ job[j].settled
        /\ renders[j].status = "failed"
        /\ renders[j].error_message.score = job[j].evals[1].score
        /\ renders[j].error_message.reason = job[j].evals[1].reason

\* C4: generateRoomRender, once the evaluation of its image is there, throws
\* exactly when the score is below 60; the message of the error holds the
\* score and the reason of the evaluation; with a score of 60 or more the
\* generated image is returned as it came.
C4_RoomThreshold ==
    \A j \in JobIds :
        (job[j].kind = "room" /\ Len(job[j].evals) = 1)
        => LET v == job[j].evals[1]
           IN  /\ v.score < 60 =>
                    /\ job[j].pc = "thrown"
                    /\ job[j].error =
                         Msg("Room render is too different from source layout",
                             v.score, v.reason)
               /\ v.score >= 60 =>
                    /\ job[j].pc = "returned"
                    /\ job[j].result = job[j].styled
                    /\ job[j].result = Img("generated", 1, 0, 0)

\* a room call whose image was scored 59 and which threw with that score
C4_Witness ==
    \E j \in JobIds :
        /\ job[j].kind = "room"
        /\ Len(job[j].evals) = 1
        /\ job[j].evals[1].score = 59
        /\ job[j].pc = "thrown"
        /\ job[j].error.score = 59
        /\ job[j].error.reason = "Room differs"

\* C5: without a key, analyzeFloorPlan and generateRoomRender each fail at
\* once with the configuration error, and no generation, evaluation or
\* analysis request is made, before or after.
C5_NoKeyRoomPaths ==
    ~apiKey =>
        /\ \A j \in JobIds :
              job[j].kind = "room" =>
                  /\ job[j].pc = "thrown"
                  /\ job[j].error = ConfigError
                  /\ job[j].nGen = 0
                  /\ job[j].nEval = 0
        /\ analysis.pc # "idle" =>
              /\ analysis.pc = "thrown"
              /\ analysis.error = ConfigError
              /\ analysis.nReq = 0
        /\ \A j \in JobIds : job[j].kind # "iso" => job[j].nGen = 0 /\ job[j].nEval = 0

\* both functions were called without a key and both have failed
C5_Witness ==
    /\ ~apiKey
    /\ \E j \in JobIds : job[j].kind = "room" /\ job[j].error = ConfigError
    /\ analysis.pc = "thrown"
    /\ analysis.error = ConfigError

\* C6: without a key, generateIsometricView of openai.ts makes no generation
\* and no evaluation request; once the projection is drawn it is returned
\* at once, and the row of the job is written as completed with it.
C6_NoKeyIsometric ==
    \A j \in JobIds :
        (job[j].kind = "iso" /\ ~apiKey)
        => /\ job[j].nGen = 0
           /\ job[j].nEval = 0
           /\ job[j].pc \in {"load", "returned", "thrown"}
           /\ job[j].pc = "thrown" => job[j].error \in {DecodeError, CanvasError}
           /\ job[j].base # NoImage =>
                /\ job[j].pc = "returned"
                /\ job[j].result = Projection(Upload)
                /\ job[j].settled =>
                     /\ HasRow(j)
                     /\ renders[j].status = "completed"
                     /\ renders[j].image_url = Projection(Upload)

\* the isometric row completed without a key
C6_Witness ==
    \E j \in JobIds :
        /\ ~apiKey
        /\ job[j].kind = "iso"
        /\ job[j].settled
        /\ renders[j].status = "completed"
        /\ renders[j].image_url = Projection(Upload)
        /\ job[j].nGen = 0

\* C7: for every row of the renders table, in every state, the status is
\* completed exactly when image_url is set, and failed exactly when
\* error_message is set.
C7_StoreInvariant ==
    \A i \in DOMAIN renders :
        /\ renders[i].status = "completed" <=> renders[i].image_url # NoImage
        /\ renders[i].status = "failed" <=> renders[i].error_message # NoMessage

\* a completed row with its image beside a failed row with its message
C7_Witness ==
    \E i, k \in DOMAIN renders :
        /\ renders[i].status = "completed"
        /\ renders[i].image_url.kind = "generated"
        /\ renders[k].status = "failed"
        /\ renders[k].error_message.text = "Layout mismatch detected"

\* C8: every row is created with status processing; a status changes only
\* from processing to completed or to failed, so at most once; a completed
\* or failed row keeps its status; pending is never written.
C8_Lifecycle ==
    [][\A i \in DOMAIN renders' :
          /\ i \notin DOMAIN renders => renders'[i].status = "processing"
          /\ i \in DOMAIN renders =>
                \/ renders'[i].status = renders[i].status
                \/ /\ renders[i].status = "processing"
                   /\ renders'[i].status \in {"completed", "failed"}
          /\ renders'[i].status # "pending"]_vars

\* both rows of an upload have left processing, one each way
C8_Witness ==
    /\ Len(renders) = 2
    /\ renders[1].status = "failed"
    /\ renders[2].status = "completed"
    /\ \A j \in DOMAIN renders : job[j].settled

\* C9: completed_at is null on every row that is processing or failed and
\* set on every completed row; it is written only by the update that takes
\* the row from processing to completed, and never written again.
C9_CompletedAt ==
    /\ [](\A i \in DOMAIN renders :
              renders[i].completed_at # 0 <=> renders[i].status = "completed")
    /\ [][\A i \in DOMAIN renders :
              renders'[i].completed_at # renders[i].completed_at =>
                  /\ renders[i].completed_at = 0
                  /\ renders[i].status = "processing"
                  /\ renders'[i].status = "completed"]_vars

\* two rows completed at different times, each with its own completed_at
C9_Witness ==
    /\ Len(renders) = 2
    /\ renders[1].status = "completed"
    /\ renders[2].status = "completed"
    /\ renders[1].completed_at > renders[2].completed_at
    /\ renders[2].completed_at > 0

\* C10: once the handler of a job whose orchestrator call threw has run,
\* the row of the job is failed, its error_message is the message of the
\* error and its image_url is null; the handler of the current App has
\* run by the time handleUpload ends.
C10_ErrorsReachTheStore ==
    \A j \in JobIds :
        job[j].pc = "thrown" =>
            /\ job[j].settled =>
                  /\ HasRow(j)
                  /\ renders[j].status = "failed"
                  /\ renders[j].error_message = job[j].error
                  /\ renders[j].image_url = NoImage
            /\ (build = "current" /\ appPc = "done") => job[j].settled

\* a layout mismatch and a timeout, each written to the row of its job
C10_Witness ==
    \E j, k \in JobIds :
        /\ job[j].settled
        /\ job[j].error.text = "Layout mismatch detected"
        /\ renders[j].error_message = job[j].error
        /\ job[k].settled
        /\ job[k].error = TimeoutError
        /\ renders[k].error_message = TimeoutError

\* ---- C11 ----

\* the errors of the services: the transport failed, the timer fired, the
\* status was not 2xx, or the body could not be used
ServiceErrors ==
    {NetworkError, TimeoutError, UpstreamError, GenDefaultError,
     EvalDefaultError, BodyError, NoImageError}

\* the attempts the loop of a job of this kind may make
AttemptsOf(kind) == IF kind = "iso_strict" THEN maxAttemptsStrict ELSE maxAttempts

\* C11 as stated: a service error raised by the generation or the
\* evaluation of one isometric attempt does not end the job: the call ends
\* with a service error only on its last attempt, after an error on attempt
\* k < maxAttempts attempt k + 1 is still made.
C11_AsStated ==
    \A j \in JobIds :
        (/\ job[j].kind \in {"iso", "iso_strict"}
         /\ job[j].pc = "thrown"
         /\ job[j].error \in ServiceErrors)
        => job[j].attempt = AttemptsOf(job[j].kind)

\* ---- C12 ----

\* C12 as stated: every network call of a job is under its armed timer from
\* the start of the request until its response has been consumed (so that
\* no job waits for ever on a request).
C12_AsStated ==
    \A j \in JobIds :
        job[j].req \in {"pending", "streaming", "stalled"} => job[j].timer

\* ---- C13 ----

\* C13: the isometric job and the room jobs of one upload are independent:
\* a step of one started job (a timeout and a failure included) leaves the
\* record and the row of every sibling as they are, and the terminal status
\* of a row is that of the outcome of its own job: completed with its
\* result when its call returned, failed with its error when it threw.
C13_SiblingsIndependent ==
    /\ [](\A j \in JobIds :
            (job[j].settled /\ HasRow(j)) =>
                IF job[j].pc = "returned"
                THEN /\ renders[j].status = "completed"
                     /\ renders[j].image_url = job[j].result
                ELSE /\ job[j].pc = "thrown"
                     /\ renders[j].status = "failed"
                     /\ renders[j].error_message = job[j].error)
    /\ [][\A j \in JobIds :
            (job[j].pc # "idle" /\ job'[j] # job[j]) =>
                \A k \in JobIds \ {j} :
                    /\ job'[k] = job[k]
                    /\ HasRow(k) => renders'[k] = renders[k]]_vars

\* a room job timed out and its row is failed; the isometric job beside it
\* went on to its second attempt, returned, and its row is completed
C13_Witness ==
    /\ build = "earlier"
    /\ \E j, k \in JobIds :
        /\ j # k
        /\ job[k].kind = "room"
        /\ job[k].error = TimeoutError
        /\ job[k].settled
        /\ renders[k].status = "failed"
        /\ job[j].kind = "iso_strict"
        /\ job[j].nGen = 2
        /\ job[j].pc = "returned"
        /\ job[j].settled
        /\ renders[j].status = "completed"

\* ---- C14 ----

\* C14: whatever the order in which the jobs settle, a row changes only in
\* the handler of its own job (the job has ended and its handler has not
\* run yet), that step leaves every other row as it is, and the row keeps
\* its id, its type and its room name.
C14_OwnRowOnly ==
    [][\A i \in DOMAIN renders :
        renders'[i] # renders[i] =>
            /\ i \in JobIds
            /\ job[i].pc \in {"returned", "thrown"}
            /\ ~job[i].settled
            /\ job'[i].settled
            /\ renders'[i].id = i
            /\ renders'[i].render_type = renders[i].render_type
            /\ renders'[i].room_name = renders[i].room_name
            /\ \A k \in DOMAIN renders \ {i} : renders'[k] = renders[k]]_vars

\* the row of the room job, inserted last, is failed while the isometric
\* job is still waiting for an answer and its row is still processing
C14_Witness ==
    /\ Len(renders) = 2
    /\ renders[2].status = "failed"
    /\ job[2].settled
    /\ renders[1].status = "processing"
    /\ job[1].req = "pending"
    /\ job[1].attempt = 2

\* ---- C15 ----

\* C15: in fetchWithTimeout, when the timer fires the request is aborted
\* and the caller gets the timeout error; when the fetch fails otherwise
\* the caller gets that error and never the timeout error; the two errors
\* differ; after either, no request is left pending and no timer armed.
C15_TimeoutHandling ==
    /\ TimeoutError # NetworkError
    /\ \A j \in JobIds :
        /\ job[j].req = "aborted" <=> (job[j].pc = "thrown" /\ job[j].error = TimeoutError)
        /\ job[j].req = "failed" <=> (job[j].pc = "thrown" /\ job[j].error = NetworkError)
        /\ job[j].pc = "thrown" => (job[j].req # "pending" /\ ~job[j].timer)

\* one job whose evaluation request was aborted by the timer beside one
\* whose generation request failed in transport
C15_Witness ==
    \E j, k \in JobIds :
        /\ job[j].req = "aborted"
        /\ job[j].error = TimeoutError
        /\ job[j].nEval = 1
        /\ job[k].req = "failed"
        /\ job[k].error = NetworkError
        /\ job[k].nEval = 0

\* ---- C16 ----

\* C16: in evaluateLayoutFaithfulness, a content that is empty or is a JSON
\* object lacking fields does not make the call raise: its result reaches
\* the caller with isFaithful = false for a missing is_faithful, score = 0
\* for a missing score and reason = "No reason provided by validator." for
\* a missing or empty reason; the fields that are there are passed through.
C16_EvaluatorDefaults ==
    \A j \in JobIds :
        job[j].content.form \in {"empty", "object"} =>
            LET c == job[j].content
                has == IF c.form = "empty" THEN {} ELSE c.has
                n == Len(job[j].evals)
            IN  /\ n >= 1
                /\ job[j].evals[n].isFaithful =
                      IF "is_faithful" \in has THEN c.is_faithful ELSE FALSE
                /\ job[j].evals[n].score =
                      IF "score" \in has THEN c.score ELSE 0
                /\ job[j].evals[n].reason =
                      IF "reason" \in has /\ c.reason # ""
                      THEN c.reason ELSE "No reason provided by validator."

\* an object with a score and an empty reason and no is_faithful: the
\* result is not faithful, has the score and the default reason
C16_Witness ==
    \E j \in JobIds :
        /\ job[j].content.form = "object"
        /\ job[j].content.has = {"score", "reason"}
        /\ job[j].content.is_faithful
        /\ job[j].content.reason = ""
        /\ job[j].content.score = 60
        /\ job[j].evals = <<[isFaithful |-> FALSE, score |-> 60,
                             reason |-> "No reason provided by validator.",
                             sourceRoomCount |-> 0, generatedRoomCount |-> 0]>>

\* ---- C17 ----

\* C17 as stated: a content of the evaluator that is not valid JSON is
\* recovered locally: it makes neither the call raise nor the row of the
\* job settle as failed.
C17_AsStated ==
    \A j \in JobIds :
        job[j].content.form = "invalid" =>
            /\ job[j].pc # "thrown"
            /\ HasRow(j) => renders[j].status # "failed"

\* ---- C18 ----

\* C18: in generateIsometricView of openai.ts an attempt is accepted (the
\* loop returns through the redraw with its image) if and only if its
\* evaluation is faithful with a score of at least 90 and equal, positive
\* room counts; an accepted attempt is the last: no generation and no
\* evaluation request follows it.
C18_Acceptance ==
    \A j \in JobIds :
        job[j].kind = "iso" =>
            LET e == job[j].evals
                n == Len(e)
            IN  /\ \A i \in 1..(n - 1) : ~FaithfulAt90WithRooms(e[i])
                /\ (n >= 1 /\ FaithfulAt90WithRooms(e[n])) =>
                      /\ job[j].pc \in {"lock", "returned", "thrown"}
                      /\ job[j].nGen = n
                      /\ job[j].nEval = n
                      /\ job[j].pc = "returned" =>
                            job[j].result = Img("composite", n, job[j].base.w, job[j].base.h)
                /\ (job[j].pc = "lock"
                      \/ (job[j].pc = "returned" /\ job[j].result.kind = "composite"))
                   => (n >= 1 /\ FaithfulAt90WithRooms(e[n]))

\* a faithful attempt at 90 whose room counts differ is passed over and the
\* next one, at exactly 90 with equal counts, is returned
C18_Witness ==
    \E j \in JobIds :
        /\ job[j].kind = "iso"
        /\ Len(job[j].evals) = 2
        /\ job[j].evals[1].isFaithful
        /\ job[j].evals[1].score = 90
        /\ job[j].evals[1].sourceRoomCount # job[j].evals[1].generatedRoomCount
        /\ job[j].evals[2].score = 90
        /\ FaithfulAt90WithRooms(job[j].evals[2])
        /\ job[j].pc = "returned"
        /\ job[j].result.kind = "composite"
        /\ job[j].result.attempt = 2
        /\ job[j].nGen = 2
        /\ job[j].nEval = 2

\* ---- C19 ----

\* C19: generateIsometricView makes at most maxAttempts generation requests
\* and at most maxAttempts evaluation requests (4 in openai.ts, 2 in
\* part_000); each attempt issues exactly one generation request; there are
\* never more evaluation than generation requests; once the last attempt
\* is evaluated the loop is over.
C19_BoundedWork ==
    \A j \in JobIds :
        job[j].kind \in {"iso", "iso_strict"} =>
            LET m == IF job[j].kind = "iso" THEN 4 ELSE 2
            IN  /\ job[j].nGen <= m
                /\ job[j].nEval <= m
                /\ job[j].nEval <= job[j].nGen
                /\ job[j].nGen = job[j].attempt
                /\ Len(job[j].evals) <= job[j].nEval
                /\ job[j].nGen <= Len(job[j].evals) + 1
                /\ Len(job[j].evals) = m => job[j].pc \in {"lock", "returned", "thrown"}

\* the fourth generation request of the current loop has no image in its
\* answer: four generation requests, three evaluation requests, the end
C19_Witness ==
    \E j \in JobIds :
        /\ job[j].kind = "iso"
        /\ job[j].nGen = 4
        /\ job[j].nEval = 3
        /\ job[j].pc = "thrown"
        /\ job[j].error = NoImageError

\* ---- C20 ----

\* C20: in the attempt loop of generateIsometricView (both revisions),
\* after each evaluated attempt k the running best holds the highest score
\* among the attempts 1..k and the image of the earliest attempt with that
\* score: a strictly greater score replaces it, a tie keeps the earlier.
C20_BestTracking ==
    \A j \in JobIds :
        job[j].kind \in {"iso", "iso_strict"} =>
            IF Len(job[j].evals) = 0
            THEN job[j].best = NoBest
            ELSE /\ job[j].best.score = MaxScore(job[j].evals)
                 /\ job[j].best.imageUrl =
                        Img("generated", EarliestMax(job[j].evals), 0, 0)

\* scores 89, 55, 89 in the current loop: the best is still the image of
\* attempt 1 after the tie of attempt 3
C20_Witness ==
    \E j \in JobIds :
        /\ job[j].kind = "iso"
        /\ Len(job[j].evals) = 3
        /\ job[j].evals[1].score = 89
        /\ job[j].evals[2].score = 55
        /\ job[j].evals[3].score = 89
        /\ job[j].best.score = 89
        /\ job[j].best.imageUrl.attempt = 1

\* ---- C21 ----

\* C21: the steps of one isometric job are sequential.  The projection is
\* there before the first generation request.  An evaluation request is
\* issued only when the generation request of the same attempt has given
\* its image (the body of its answer was being read), on that image.  The
\* generation request of attempt k + 1 is issued only when the evaluation
\* of attempt k has returned and was not accepted.  A request is never
\* issued while another request of the job is pending.
C21_StepOrder ==
    /\ [](\A j \in JobIds :
            (job[j].kind = "iso" /\ job[j].nGen >= 1) =>
                /\ job[j].base.kind = "projection"
                /\ job[j].source = job[j].base)
    /\ [][\A j \in JobIds :
            job'[j].kind \in {"iso", "iso_strict"} =>
                /\ job'[j].nGen # job[j].nGen =>
                      /\ job'[j].nGen = job[j].nGen + 1
                      /\ job'[j].nEval = job[j].nEval
                      /\ job[j].nEval = job[j].nGen
                      /\ Len(job'[j].evals) = job[j].nGen
                      /\ job[j].req # "pending"
                      /\ job[j].nGen >= 1 =>
                            /\ job[j].pc = "eval_body"
                            /\ IF job'[j].kind = "iso"
                               THEN ~FaithfulAt90WithRooms(job'[j].evals[job[j].nGen])
                               ELSE ~FaithfulAt70(job'[j].evals[job[j].nGen])
                /\ job'[j].nEval # job[j].nEval =>
                      /\ job'[j].nEval = job[j].nEval + 1
                      /\ job'[j].nGen = job[j].nGen
                      /\ job[j].nGen = job[j].nEval + 1
                      /\ job[j].pc = "gen_body"
                      /\ job[j].req = "streaming"
                      /\ job[j].ok
                      /\ job'[j].styled = Img("generated", job[j].attempt, 0, 0)]_vars

\* the generation request of attempt 3 is pending: the projection is there
\* and two evaluations have returned, neither accepted
C21_Witness ==
    \E j \in JobIds :
        /\ job[j].kind = "iso"
        /\ job[j].pc = "gen_fetch"
        /\ job[j].req = "pending"
        /\ job[j].nGen = 3
        /\ job[j].nEval = 2
        /\ Len(job[j].evals) = 2
        /\ job[j].base = Projection(Upload)

\* ---- C22 ----

\* C22: a room job is single-attempt.  Whatever the outcome,
\* generateRoomRender issues one generation request (none when the key is
\* missing and the call throws before any request) and at most one
\* evaluation request, both with the uploaded image as the source; after a
\* score below the threshold the call has thrown and no second generation
\* request was issued.
C22_RoomSingleAttempt ==
    \A j \in JobIds :
        job[j].kind = "room" =>
            /\ job[j].nGen = IF job[j].pc = "thrown" /\ job[j].error = ConfigError
                             THEN 0 ELSE 1
            /\ job[j].nEval <= 1
            /\ job[j].nEval <= job[j].nGen
            /\ Len(job[j].evals) <= job[j].nEval
            /\ job[j].nGen = 1 => job[j].source = Img("upload", 0, 100, 50)
            /\ job[j].nEval = 1 => job[j].evalSource = Img("upload", 0, 100, 50)
            /\ (Len(job[j].evals) = 1 /\ job[j].evals[1].score < 60) =>
                  /\ job[j].pc = "thrown"
                  /\ job[j].nGen = 1

\* a room job of an upload scored below the threshold: one generation and
\* one evaluation request on the uploaded image, and its row is failed
C22_Witness ==
    /\ build = "earlier"
    /\ \E j \in JobIds :
        /\ job[j].kind = "room"
        /\ Len(job[j].evals) = 1
        /\ job[j].evals[1].score < 60
        /\ job[j].nGen = 1
        /\ job[j].nEval = 1
        /\ job[j].source = Upload
        /\ job[j].evalSource = Upload
        /\ job[j].settled
        /\ renders[j].status = "failed"

\* ---- C23 ----

\* C23: in an isometric job of openai.ts the prompt of the generation
\* request of attempt 1 is the styling prompt alone, and the prompt of
\* every later attempt is the styling prompt followed by the retry
\* instruction.
C23_RetryInstruction ==
    \A j \in JobIds :
        (job[j].kind = "iso" /\ job[j].nGen >= 1) =>
            /\ job[j].attempt = 1 => job[j].prompt = <<"style">>
            /\ job[j].attempt >= 2 => job[j].prompt = <<"style", "retry instruction">>

\* the request of attempt 1 went out with the styling prompt alone, was
\* evaluated and rejected, and the request of attempt 2 carries the retry
\* instruction
C23_Witness ==
    \E j \in JobIds :
        /\ job[j].kind = "iso"
        /\ job[j].attempt = 2
        /\ job[j].pc = "gen_fetch"
        /\ Len(job[j].evals) = 1
        /\ job[j].prompt = StylePrompt \o RetryInstruction

\* ---- C24 ----

\* C24: every image generateIsometricView of openai.ts returns has the
\* width and the height of the deterministic projection: the image of an
\* accepted attempt is redrawn at that size whatever size the generator
\* answered with, and the fallback and the path without a key return the
\* projection itself.
C24_StableDimensions ==
    \A j \in JobIds :
        (job[j].kind = "iso" /\ job[j].pc = "returned") =>
            /\ job[j].base.kind = "projection"
            /\ job[j].result.w = job[j].base.w
            /\ job[j].result.h = job[j].base.h
            /\ job[j].result.kind \in {"composite", "projection"}

\* the generator answered with a 1024 x 1024 image, it was accepted, and
\* what is returned has the size of the projection of the 100 x 50 plan
C24_Witness ==
    \E j \in JobIds :
        /\ job[j].kind = "iso"
        /\ job[j].pc = "returned"
        /\ job[j].styled.w = 1024
        /\ job[j].styled.h = 1024
        /\ job[j].result.kind = "composite"
        /\ job[j].result.w = 265
        /\ job[j].result.h = 170

\* ---- C25 ----

\* C25 as stated: for a plan of W x H pixels the projection is
\* ceil(W + 0.58 * H + 2 * pad) wide and ceil(0.68 * H + 2 * pad) high,
\* with pad = 40.
C25_AsStated ==
    \A j \in JobIds :
        (job[j].kind = "projector" /\ job[j].pc = "returned") =>
            LET W == job[j].source.w
                H == job[j].source.h
            IN  /\ job[j].result.w = (100 * W + 58 * H + 99) \div 100 + 80
                /\ job[j].result.h = (68 * H + 99) \div 100 + 80

\* C25 amended: for a plan of W x H pixels the projection is
\* ceil(W + 0.58 * H + 2 * pad + 2 * depth) wide and
\* ceil(0.68 * H + 2 * pad + 2 * depth) high, with pad = 40 and depth = 28.
C25_ProjectorSize ==
    \A j \in JobIds :
        (job[j].kind = "projector" /\ job[j].pc = "returned") =>
            LET W == job[j].source.w
                H == job[j].source.h
            IN  /\ job[j].result.w = (100 * W + 58 * H + 99) \div 100 + 80 + 56
                /\ job[j].result.h = (68 * H + 99) \div 100 + 80 + 56

\* a plan of 3 x 7 pixels: 3 + 4.06 rounds up to 8 and 4.76 up to 5, and
\* the projection is 144 x 141
C25_Witness ==
    \E j \in JobIds :
        /\ job[j].kind = "projector"
        /\ job[j].pc = "returned"
        /\ job[j].source.w = 3
        /\ job[j].source.h = 7
        /\ job[j].result.w = 144
        /\ job[j].result.h = 141

\* ---- C26 ----

\* C26: what generateIsometricView of openai.ts returns is either the
\* redrawn image of the accepted attempt, which is the last one evaluated,
\* or the deterministic projection; it is never the image of an attempt
\* that was not accepted, the one held as the running best included.
C26_AcceptedOrProjection ==
    \A j \in JobIds :
        (job[j].kind = "iso" /\ job[j].pc = "returned") =>
            LET n == Len(job[j].evals)
            IN  /\ \/ job[j].result = job[j].base /\ job[j].base.kind = "projection"
                   \/ /\ job[j].result.kind = "composite"
                      /\ n >= 1
                      /\ job[j].result.attempt = n
                      /\ FaithfulAt90WithRooms(job[j].evals[n])
                /\ job[j].result.kind # "generated"
                /\ job[j].result # job[j].best.imageUrl
                /\ \A i \in 1..n :
                      ~FaithfulAt90WithRooms(job[j].evals[i]) =>
                          ~(job[j].result.kind = "composite" /\ job[j].result.attempt = i)

\* four rejected attempts, the second the best with a faithful 90 and
\* unequal room counts: the projection is returned, not the best image
C26_Witness ==
    \E j \in JobIds :
        /\ job[j].kind = "iso"
        /\ job[j].pc = "returned"
        /\ Len(job[j].evals) = 4
        /\ job[j].best.score = 90
        /\ job[j].best.imageUrl = Img("generated", 2, 0, 0)
        /\ job[j].evals[2].isFaithful
        /\ job[j].result = Projection(Upload)

\* ---- C27 ----

\* C27: in generateIsometricView of openai.ts, while every evaluation has
\* a room count of 0 (reported as 0, or left out and defaulted), no attempt
\* is accepted whatever its score and its flag: nothing is redrawn, and a
\* call that returns after an attempt has made all 4 attempts and returns
\* the deterministic projection.
C27_ZeroRoomCounts ==
    \A j \in JobIds :
        (/\ job[j].kind = "iso"
         /\ \A i \in DOMAIN job[j].evals :
              \/ job[j].evals[i].sourceRoomCount = 0
              \/ job[j].evals[i].generatedRoomCount = 0)
        => /\ job[j].pc # "lock"
           /\ job[j].result.kind # "composite"
           /\ (job[j].pc = "returned" /\ job[j].nGen >= 1) =>
                 /\ job[j].nGen = 4
                 /\ job[j].nEval = 4
                 /\ Len(job[j].evals) = 4
                 /\ job[j].result = job[j].base
                 /\ job[j].base.kind = "projection"
           /\ Len(job[j].evals) = 4 => job[j].pc = "returned"

\* four answers that are faithful at 90, the last with both room counts
\* left out: the projection is returned
C27_Witness ==
    \E j \in JobIds :
        /\ job[j].kind = "iso"
        /\ job[j].pc = "returned"
        /\ Len(job[j].evals) = 4
        /\ \A i \in 1..4 :
              /\ job[j].evals[i].isFaithful
              /\ job[j].evals[i].score = 90
              /\ job[j].evals[i].sourceRoomCount = 0
        /\ job[j].content.form = "object"
        /\ "source_room_count" \notin job[j].content.has
        /\ "generated_room_count" \notin job[j].content.has
        /\ job[j].result = Projection(Upload)

\* ---- C28 ----

\* C28: the acceptance of a room render depends on the score alone: once
\* its evaluation is there generateRoomRender has returned the generated
\* image if the score is at least 60, whatever is_faithful says, and has
\* thrown if the score is below 60, whatever is_faithful says; an answer
\* without a score counts as 0 and the call throws.
C28_RoomScoreAlone ==
    \A j \in JobIds :
        (job[j].kind = "room" /\ Len(job[j].evals) = 1) =>
            /\ job[j].pc \in {"returned", "thrown"}
            /\ job[j].pc = "returned" <=> job[j].evals[1].score >= 60
            /\ job[j].pc = "returned" => job[j].result = Img("generated", 1, 0, 0)
            /\ (job[j].content.form = "empty"
                  \/ (job[j].content.form = "object" /\ "score" \notin job[j].content.has))
               => /\ job[j].evals[1].score = 0
                  /\ job[j].pc = "thrown"

\* the evaluator answered is_faithful = false with a score of 60 and the
\* room render was returned
C28_Witness ==
    \E j \in JobIds :
        /\ job[j].kind = "room"
        /\ job[j].content.form = "object"
        /\ job[j].content.has = AllFields
        /\ ~job[j].content.is_faithful
        /\ job[j].evals = <<[isFaithful |-> FALSE, score |-> 60,
                             reason |-> "Room differs",
                             sourceRoomCount |-> 3, generatedRoomCount |-> 3]>>
        /\ job[j].pc = "returned"
        /\ job[j].result = Img("generated", 1, 0, 0)

\* ---- C29 ----

\* C29 as stated: handleUpload sets isProcessing at its start and on every
\* path sets it back: while isProcessing is set the upload is never stuck,
\* a step towards the reset can always be taken; and in the current App
\* the reset comes only once the isometric row is written completed or
\* failed, or with an error message shown.
C29_AsStated ==
    /\ isProcessing => ENABLED Next
    /\ (build = "current" /\ appPc = "done") =>
          /\ ~isProcessing
          /\ \/ statusMessage # ""
             \/ HasRow(1) /\ renders[1].status \in {"completed", "failed"}

\* ---- C30 ----

\* the first place of an array at which a string trims to t
FirstPlace(elems, t) ==
    CHOOSE p \in DOMAIN elems :
        /\ elems[p].isString /\ Trim(elems[p].text) = t
        /\ \A q \in 1..(p - 1) : ~(elems[q].isString /\ Trim(elems[q].text) = t)

====
